---------------------------- MODULE Spec2Model ----------------------------
(***************************************************************************)
(* A model of server.js, the calendar assistant: the POST /chat function-  *)
(* calling loop, the three local functions it dispatches to, the          *)
(* GET /appointments listing, the OAuth callback and the once-per-minute   *)
(* reminder scan, over the document store, the calendar provider and the   *)
(* single module-level OAuth client.                                       *)
(*                                                                         *)
(* Every handler is an async function.  One action of the model is one     *)
(* turn of the event loop: the external operation a handler is awaiting    *)
(* takes effect and the handler runs on to its next await.  Handlers of    *)
(* different requests, and the calls of one Promise.all, interleave at     *)
(* those awaits.  An external operation (document store, calendar API,     *)
(* chat model) may fail whenever it is awaited.                            *)
(*                                                                         *)
(* Strings are sequences of one-character strings.  A date "YYYY-MM-DD"    *)
(* is the day number it denotes and a time "HH:MM" the pair <<hh, mm>>;    *)
(* both are well formed, as the function declarations ask of the model.    *)
(* The description, googleCalendarLink and updatedAt fields, which no      *)
(* decision of the program reads, are left out of the documents.           *)
(***************************************************************************)
EXTENDS Integers, Sequences, FiniteSets, TLC

\* ------------------------------------------------------------- bounds
\* HTTP requests (POST /chat, GET /appointments) received in a run
MaxRequests == 1
\* function calls the chat model asks for in a run, over all turns
MaxCalls == 1
\* firings of the cron timer in a run
MaxScans == 4

\* ------------------------------------------------------------- inputs
UserIds == {"default_user", "guest"}
\* Google accounts an authorization code may stand for; a user's tokens are
\* modelled by the account they open
Accounts == {"acctA", "acctB"}
NoTokens == "null"

\* texts the chat model passes as deleteAppointment's identifier
TextIdentifiers == { <<"G", "Y", "M">> }

\* minutes east of UTC of the server's local time zone
TzOffsets == {0, 180}
\* the instant the run starts at: day 1, 23:42 UTC, in ms
Clock0 == ((1 * 24 + 23) * 60 + 42) * 60 * 1000
\* milliseconds past the full minute at which the cron callback reads the clock
Phases == {0, 250}
\* (title, date, time) the chat model passes to scheduleAppointment
ScheduleArgs == { << <<"G", "y", "m">>, 1, <<23, 59>> >>,
                  << <<"g", "y", "m", "2">>, 2, <<0, 0>> >>,
                  << <<"G", "y", "m">>, 2, <<2, 59>> >> }
\* what the chat model passes as getAppointments' date; 0 is "no date"
DateFilters == {0, 2}

\* ------------------------------------------------------------ strings
HexDigits == <<"0", "1", "2", "3", "4", "5", "6", "7", "8", "9",
               "a", "b", "c", "d", "e", "f">>

IsHexDigit(ch) == \E i \in 1..16 : HexDigits[i] = ch

DigitValue(ch) == (CHOOSE i \in 1..16 : HexDigits[i] = ch) - 1

RECURSIVE HexValue(_)
HexValue(s) ==
  IF s = <<>> THEN 0
  ELSE 16 * HexValue(SubSeq(s, 1, Len(s) - 1)) + DigitValue(s[Len(s)])

\* _id.toString(): the 24 hex digits of an ObjectId
ObjectIdString(n) ==
  [i \in 1..24 |-> IF i = 24 THEN HexDigits[(n % 16) + 1]
                   ELSE IF i = 23 THEN HexDigits[((n \div 16) % 16) + 1]
                   ELSE "0"]

\* new ObjectId(identifier) throws unless identifier is 24 hex digits
IsObjectIdString(s) == Len(s) = 24 /\ \A i \in 1..24 : IsHexDigit(s[i])

Lower(ch) ==
  CASE ch = "G" -> "g" [] ch = "Y" -> "y" [] ch = "M" -> "m" [] OTHER -> ch

ToLower(s) == [i \in 1..Len(s) |-> Lower(s[i])]

\* { $regex: identifier, $options: 'i' } for an identifier without regex
\* metacharacters: the pattern occurs somewhere in the title, case ignored
RegexMatches(identifier, title) ==
  \E i \in 0..(Len(title) - Len(identifier)) :
    SubSeq(ToLower(title), i + 1, i + Len(identifier)) = ToLower(identifier)

\* --------------------------------------------------------------- time
\* new Date(`${date}T${time}:00`): the instant, in ms, of a local date-time
\* on a server whose zone is tz minutes east of UTC
DateTimeMs(date, time, tz) ==
  (((date * 24 + time[1]) * 60 + time[2]) - tz) * 60 * 1000

\* now.toISOString().split('T')[0]: the UTC date of an instant
IsoDate(ms) == ms \div (24 * 60 * 60 * 1000)

\* ---------------------------------------------------------------- state
VARIABLES
  appointments,   \* the appointments collection: a set of documents
  users,          \* the users collection: userId -> stored tokens
  credentials,    \* oauth2Client.credentials, shared by every handler
  events,         \* the calendar provider: the live events of every account
  nextId,         \* the next ObjectId the store hands out
  nextEventId,    \* the next event id the calendar hands out
  requests,       \* the HTTP requests received, by arrival
  calls,          \* the executeFunction calls of the chat requests
  now,            \* the clock, ms
  tz,             \* the server's time zone, minutes east of UTC
  phase,          \* ms past the minute at which the cron callback runs
  scan,           \* the running reminder scan
  reminders,      \* the console: the reminders logged
  savedTokens,    \* history: every <<userId, tokens>> saveUserTokens stored
  inserted,       \* history: of every document stored, its id, its user, when
                  \* it was stored and the tokens its scheduleAppointment read
  requestsLeft, callsLeft, scansLeft

vars == <<appointments, users, credentials, events, nextId, nextEventId,
          requests, calls, now, tz, phase, scan, reminders, inserted,
          savedTokens, requestsLeft, callsLeft, scansLeft>>

NoDoc == [_id |-> 0, userId |-> "", title |-> <<>>, date |-> 0,
          time |-> <<0, 0>>, reminded |-> FALSE, googleEventId |-> 0,
          createdAt |-> 0]

\* the outcomes of an external operation: TRUE it succeeds, FALSE it fails.
\* Every action that awaits one takes the outcomes it may see as outs.
Outcomes == {TRUE, FALSE}

IdleScan == [pc |-> "idle", at |-> 0, todo |-> <<>>]

\* a document as an earlier run of the server stored it for a user who had
\* not connected a calendar: scheduleAppointment's document without an event
StoredBefore(id, userId, args) ==
  [_id |-> id, userId |-> userId, title |-> args[1], date |-> args[2],
   time |-> args[3], reminded |-> FALSE, googleEventId |-> 0,
   createdAt |-> Clock0 - 60 * 60 * 1000]

\* what the database may hold when the server starts: nothing, or one
\* appointment of guest and two of default_user
StoresAtStart ==
  { {},
    { StoredBefore(1, "guest", << <<"G", "y", "m">>, 1, <<23, 59>> >>),
      StoredBefore(2, "default_user", << <<"g", "y", "m", "2">>, 2, <<0, 0>> >>),
      StoredBefore(3, "default_user", << <<"G", "y", "m">>, 2, <<2, 59>> >>) } }

\* the same database after default_user connected the calendar of acctA and
\* scheduled once more: the document scheduleAppointment stores with the id
\* of the event it created
StoreWithEvent ==
  { StoredBefore(1, "guest", << <<"G", "y", "m">>, 1, <<23, 59>> >>),
    [StoredBefore(2, "default_user", << <<"g", "y", "m", "2">>, 2, <<0, 0>> >>)
       EXCEPT !.googleEventId = 1],
    StoredBefore(3, "default_user", << <<"G", "y", "m">>, 2, <<2, 59>> >>) }

WithEvent(store) == {a \in store : a.googleEventId # 0}

\* the server has started on a database holding store, the calendar holding
\* the events of its documents
InitOn(store) ==
  /\ appointments = store
  /\ inserted = {[id |-> a._id, userId |-> a.userId, at |-> a.createdAt,
                   tokens |-> IF a.googleEventId # 0 THEN "acctA" ELSE NoTokens] :
                   a \in store}
  /\ nextId = Cardinality(store) + 1
  /\ users = [u \in UserIds |->
               IF \E a \in WithEvent(store) : a.userId = u
               THEN "acctA" ELSE NoTokens]
  /\ savedTokens = {<<a.userId, "acctA">> : a \in WithEvent(store)}
  /\ credentials = NoTokens
  /\ events = {[id |-> a.googleEventId, account |-> "acctA", owner |-> a.userId] :
                 a \in WithEvent(store)}
  /\ nextEventId = Cardinality(WithEvent(store)) + 1
  /\ requests = <<>>
  /\ calls = <<>>
  /\ now = Clock0
  /\ scan = IdleScan
  /\ reminders = {}

Init ==
  /\ \E store \in {{}, StoreWithEvent} : InitOn(store)
  /\ tz = 0
  /\ phase = 0
  /\ requestsLeft = MaxRequests
  /\ callsLeft = MaxCalls
  /\ scansLeft = 0

\* ------------------------------------------------------------- queries
\* the query without its userId field
ByAnyUser(store, userId) == store

\* find({ userId }) / countDocuments({ userId }): the documents of one user
ByUser(store, userId) == {a \in store : a.userId = userId}

\* getAppointments' query: { userId }, and { userId, date } when a date is given
FindQuery(store, userId, date) ==
  {a \in ByUser(store, userId) : date = 0 \/ a.date = date}

\* findOne: the first match in natural (insertion) order, or nothing
FindOne(S) ==
  IF S = {} THEN NoDoc
  ELSE CHOOSE a \in S : \A b \in S : a._id <= b._id

\* sort({ date: 1, time: 1 }) on "YYYY-MM-DD" and "HH:MM" strings
Before(a, b) ==
  \/ a.date < b.date
  \/ a.date = b.date /\ a.time[1] * 60 + a.time[2] < b.time[1] * 60 + b.time[2]
  \/ a.date = b.date /\ a.time = b.time /\ a._id <= b._id

RECURSIVE SortByDateTime(_)
SortByDateTime(S) ==
  IF S = {} THEN <<>>
  ELSE LET first == CHOOSE a \in S : \A b \in S : Before(a, b)
       IN  <<first>> \o SortByDateTime(S \ {first})

\* appointments.map(apt => ({ id: apt._id.toString(), ... }))
IdStrings(docs) == [i \in 1..Len(docs) |-> ObjectIdString(docs[i]._id)]

\* deleteAppointment's first lookup: { userId, _id: new ObjectId(identifier) }
ByIdQuery(store, userId, identifier) ==
  {a \in ByUser(store, userId) : a._id = HexValue(identifier)}

\* deleteAppointment's second lookup: { userId, title: { $regex, $options: 'i' } }
ByTitleQuery(store, userId, identifier) ==
  {a \in ByUser(store, userId) : RegexMatches(identifier, a.title)}

\* deleteOne by the title of the appointment found instead of its _id
DeleteByTitle(store, id) ==
  {a \in store : \A b \in store : b._id = id => a.title # b.title}

\* deleteOne({ _id: appointment._id })
DeleteOne(store, id) == {a \in store : a._id # id}

\* the reminder scan's query: { reminded: false, date: <UTC date of now> }
NeedingReminder(store, at) ==
  {a \in store : ~a.reminded /\ a.date = IsoDate(at)}

\* the window with its upper end included
InWindowClosed(aptDateTime, at) ==
  /\ aptDateTime >= at + 15 * 60 * 1000
  /\ aptDateTime <= at + 16 * 60 * 1000

\* aptDateTime >= fifteenMinutesFromNow && aptDateTime < sixteenMinutesFromNow
InWindow(aptDateTime, at) ==
  /\ aptDateTime >= at + 15 * 60 * 1000
  /\ aptDateTime < at + 16 * 60 * 1000

\* updateOne({ _id }, { $set: { reminded: true } })
SetReminded(store, id) ==
  {IF a._id = id THEN [a EXCEPT !.reminded = TRUE] ELSE a : a \in store}

\* the document with the user the OAuth callback hard-codes
NewAppointmentOfDefaultUser(c, id) ==
  [_id |-> id, userId |-> "default_user", title |-> c.title, date |-> c.date,
   time |-> c.time, reminded |-> FALSE,
   googleEventId |-> IF c.gcal = "ok" THEN c.eventId ELSE 0,
   createdAt |-> c.createdAt]

\* the document scheduleAppointment builds and insertOne stores
NewAppointment(c, id) ==
  [_id |-> id, userId |-> c.userId, title |-> c.title, date |-> c.date,
   time |-> c.time, reminded |-> FALSE,
   googleEventId |-> IF c.gcal = "ok" THEN c.eventId ELSE 0,
   createdAt |-> c.createdAt]

\* ------------------------------------------------- the chat model's calls
Identifiers == {ObjectIdString(1)} \cup TextIdentifiers

NoArgs == [title |-> <<>>, date |-> 0, time |-> <<0, 0>>, identifier |-> <<>>]

FunctionCalls ==
  {[NoArgs EXCEPT !.title = s[1], !.date = s[2], !.time = s[3]] @@
     [name |-> "scheduleAppointment"] : s \in ScheduleArgs}
  \cup {[NoArgs EXCEPT !.date = d] @@ [name |-> "getAppointments"] :
          d \in DateFilters}
  \cup {[NoArgs EXCEPT !.identifier = i] @@ [name |-> "deleteAppointment"] :
          i \in Identifiers}
  \cup {NoArgs @@ [name |-> "sendEmail"]}

\* what response.functionCalls() may hold: nothing, or one or two calls
ModelTurns ==
  {<<>>} \cup {<<f>> : f \in FunctionCalls}
         \cup {<<f, g>> : f \in FunctionCalls, g \in FunctionCalls}

\* executeFunction(userId, fc) up to its first await
NewCall(userId, fc) ==
  [name |-> fc.name, userId |-> userId, title |-> fc.title, date |-> fc.date,
   time |-> fc.time, identifier |-> fc.identifier, createdAt |-> now,
   pc |-> CASE fc.name = "scheduleAppointment" -> "getTokens"
            [] fc.name = "getAppointments" -> "find"
            [] fc.name = "deleteAppointment" ->
                 IF IsObjectIdString(fc.identifier) THEN "findById"
                 ELSE "findByTitle"
            [] OTHER -> "returned",
   tokens |-> NoTokens, gcal |-> "none", eventId |-> 0, usedCreds |-> NoTokens,
   found |-> NoDoc, success |-> FALSE, resultId |-> <<>>, resultIds |-> <<>>]

CallsOf(r) == {k \in DOMAIN calls : k[1] = r}

NewRequest(kind, userId) ==
  [kind |-> kind, userId |-> userId,
   pc |-> IF kind = "chat" THEN "sendMessage" ELSE "find",
   asked |-> 0, sentBack |-> {}, count |-> 0, list |-> <<>>,
   responses |-> <<>>]

\* the catch of POST /chat: res.status(500).json(...)
Respond500(rq) == [rq EXCEPT !.pc = "done", !.responses = @ \o <<500>>]

\* ------------------------------------------------------- HTTP handlers
kept == <<now, tz, phase, scan, reminders, scansLeft>>

\* POST /chat arrives: the handler runs to its first chat.sendMessage(message)
PostChat(u) ==
  /\ requestsLeft > 0
  /\ requests' = Append(requests, NewRequest("chat", u))
  /\ requestsLeft' = requestsLeft - 1
  /\ UNCHANGED <<appointments, users, savedTokens, credentials, events, nextId, nextEventId,
                 calls, inserted, callsLeft, kept>>

\* GET /appointments arrives: the handler runs to its find(...).toArray()
GetAppointmentsRoute(u) ==
  /\ requestsLeft > 0
  /\ requests' = Append(requests, NewRequest("list", u))
  /\ requestsLeft' = requestsLeft - 1
  /\ UNCHANGED <<appointments, users, savedTokens, credentials, events, nextId, nextEventId,
                 calls, inserted, callsLeft, kept>>

\* chat.sendMessage settles: it throws, or the model's turn holds no function
\* call (the loop ends) or some, each of which executeFunction starts; turns
\* is what the model may answer
SendMessageSettles(r, turns, outs) ==
  /\ requests[r].pc = "sendMessage"
  /\ \E ok \in outs, turn \in turns :
       /\ Len(turn) <= callsLeft
       /\ ~ok => turn = <<>>
       /\ callsLeft' = callsLeft - Len(turn)
       /\ requests' =
            [requests EXCEPT ![r] =
               IF ~ok THEN Respond500(@)
               ELSE IF turn = <<>> THEN [@ EXCEPT !.pc = "count"]
               ELSE [@ EXCEPT !.pc = "calls", !.asked = Len(turn),
                              !.sentBack = {}]]
       /\ calls' =
            IF ok
            THEN [k \in DOMAIN calls \cup {<<r, i>> : i \in 1..Len(turn)} |->
                    IF k[1] = r THEN NewCall(requests[r].userId, turn[k[2]])
                    ELSE calls[k]]
            ELSE calls
  /\ UNCHANGED <<appointments, users, savedTokens, credentials, events, nextId, nextEventId,
                 inserted, requestsLeft, kept>>

\* Promise.all fulfils: every call of the turn has returned; the loop sends
\* [{ functionResponse: functionResponses[0] }] back to the model
PromiseAllFulfils(r) ==
  /\ requests[r].pc = "calls"
  /\ \A k \in CallsOf(r) : calls[k].pc = "returned"
  /\ requests' = [requests EXCEPT ![r] = [@ EXCEPT !.pc = "sendMessage",
                                                   !.sentBack = {1}]]
  /\ calls' = [k \in DOMAIN calls \ CallsOf(r) |-> calls[k]]
  /\ UNCHANGED <<appointments, users, savedTokens, credentials, events, nextId, nextEventId,
                 inserted, requestsLeft, callsLeft, kept>>

\* Promise.all rejects as soon as one call has thrown: the handler's catch
\* answers 500; the turn's other calls run on unobserved
PromiseAllRejects(r) ==
  /\ requests[r].pc = "calls"
  /\ \E k \in CallsOf(r) : calls[k].pc = "threw"
  /\ requests' = [requests EXCEPT ![r] = Respond500(@)]
  /\ calls' = [k \in {j \in DOMAIN calls :
                        j[1] = r => calls[j].pc \notin {"returned", "threw"}} |->
                 calls[k]]
  /\ UNCHANGED <<appointments, users, savedTokens, credentials, events, nextId, nextEventId,
                 inserted, requestsLeft, callsLeft, kept>>

\* the loop has ended: countDocuments({ userId }) and getUserTokens(userId)
\* settle and res.json answers; a rejection of either reaches the catch
ChatReplies(r, outs) ==
  /\ requests[r].pc = "count"
  /\ \E ok \in outs :
       requests' =
         [requests EXCEPT ![r] =
            IF ok
            THEN [@ EXCEPT !.pc = "done", !.responses = @ \o <<200>>,
                    !.count = Cardinality(ByUser(appointments,
                                                 requests[r].userId))]
            ELSE Respond500(@)]
  /\ UNCHANGED <<appointments, users, savedTokens, credentials, events, nextId, nextEventId,
                 calls, inserted, requestsLeft, callsLeft, kept>>

\* GET /appointments: find({ userId }).sort(...).toArray() and
\* getUserTokens(userId) settle and res.json answers; the handler has no
\* catch, so a rejection of either escapes it and it sends no response
ListReplies(r, outs) ==
  /\ requests[r].pc = "find"
  /\ \E ok \in outs :
       requests' =
         [requests EXCEPT ![r] =
            IF ok
            THEN [@ EXCEPT !.pc = "done", !.responses = @ \o <<200>>,
                    !.list = IdStrings(SortByDateTime(
                               ByUser(appointments, requests[r].userId)))]
            ELSE [@ EXCEPT !.pc = "unhandled"]]
  /\ UNCHANGED <<appointments, users, savedTokens, credentials, events, nextId, nextEventId,
                 calls, inserted, requestsLeft, callsLeft, kept>>

\* the callback storing the tokens under the user of the session that
\* connected: acctA is default_user's account, any other guest's
OAuth2CallbackOfSession(g, outs) ==
  LET userId == IF g = "acctA" THEN "default_user" ELSE "guest" IN
  /\ users[userId] # g
  /\ \E ok \in outs :
       /\ users' = IF ok THEN [users EXCEPT ![userId] = g] ELSE users
       /\ savedTokens' = IF ok THEN savedTokens \cup {<<userId, g>>}
                         ELSE savedTokens
  /\ UNCHANGED <<appointments, credentials, events, nextId, nextEventId,
                 requests, calls, inserted, requestsLeft, callsLeft, kept>>

\* GET /oauth2callback: getToken(code) yields the tokens of account g, then
\* saveUserTokens('default_user', tokens)
OAuth2Callback(g, outs) ==
  /\ users["default_user"] # g
  /\ \E ok \in outs :
       /\ users' = IF ok THEN [users EXCEPT !["default_user"] = g] ELSE users
       /\ savedTokens' = IF ok THEN savedTokens \cup {<<"default_user", g>>}
                         ELSE savedTokens
  /\ UNCHANGED <<appointments, credentials, events, nextId, nextEventId,
                 requests, calls, inserted, requestsLeft, callsLeft, kept>>

\* ---------------------------------------------------- scheduleAppointment
SetCall(k, c) == calls' = [calls EXCEPT ![k] = c]

\* scheduleToGoogleCalendar: getUserTokens settles; without tokens, or on a
\* rejection (caught), the result is success=false and insertOne is issued;
\* with tokens they are set on the shared client and events.insert is issued
ScheduleGetTokens(k, outs) ==
  /\ calls[k].pc = "getTokens"
  /\ \E ok \in outs :
       LET tokens == users[calls[k].userId] IN
       /\ IF ok /\ tokens # NoTokens
          THEN /\ credentials' = tokens
               /\ SetCall(k, [calls[k] EXCEPT !.pc = "calendarInsert",
                                              !.tokens = tokens])
          ELSE /\ credentials' = credentials
               /\ SetCall(k, [calls[k] EXCEPT !.pc = "insertOne",
                                              !.gcal = "failed"])
  /\ UNCHANGED <<appointments, users, savedTokens, events, nextId, nextEventId, requests,
                 inserted, requestsLeft, callsLeft, kept>>

\* the credentials a calendar request of call k goes out with.  The client
\* library reads oauth2Client.credentials when it builds the request: in the
\* turn of setCredentials, the call's own tokens, or, after awaiting a token
\* refresh or a retry, what the shared client holds by then
RequestCredentials(k) == {calls[k].tokens, credentials}

\* calendar.events.insert settles; scheduleAppointment copies the event id
\* and issues insertOne
CalendarInsert(k, outs) ==
  /\ calls[k].pc = "calendarInsert"
  /\ \E ok \in outs, used \in RequestCredentials(k) :
       /\ events' = IF ok
                    THEN events \cup {[id |-> nextEventId, account |-> used,
                                       owner |-> calls[k].userId]}
                    ELSE events
       /\ nextEventId' = IF ok THEN nextEventId + 1 ELSE nextEventId
       /\ SetCall(k, [calls[k] EXCEPT !.pc = "insertOne",
                                      !.usedCreds = used,
                                      !.gcal = IF ok THEN "ok" ELSE "failed",
                                      !.eventId = IF ok THEN nextEventId ELSE 0])
  /\ UNCHANGED <<appointments, users, savedTokens, credentials, nextId, requests, inserted,
                 requestsLeft, callsLeft, kept>>

\* insertOne settles: the document is stored and the call returns success=true
\* with its id; a rejection propagates out of scheduleAppointment
InsertOne(k, outs) ==
  /\ calls[k].pc = "insertOne"
  /\ \E ok \in outs :
       /\ appointments' = IF ok
                          THEN appointments \cup {NewAppointment(calls[k], nextId)}
                          ELSE appointments
       /\ inserted' = IF ok
                      THEN inserted \cup {[id |-> nextId, userId |-> calls[k].userId,
                                          at |-> now,
                                          tokens |-> calls[k].tokens]}
                      ELSE inserted
       /\ nextId' = IF ok THEN nextId + 1 ELSE nextId
       /\ SetCall(k, IF ok
                     THEN [calls[k] EXCEPT !.pc = "returned", !.success = TRUE,
                                           !.resultId = ObjectIdString(nextId)]
                     ELSE [calls[k] EXCEPT !.pc = "threw"])
  /\ UNCHANGED <<users, savedTokens, credentials, events, nextEventId, requests,
                 requestsLeft, callsLeft, kept>>

\* -------------------------------------------------------- getAppointments
GetAppointments(k, outs) ==
  /\ calls[k].pc = "find"
  /\ \E ok \in outs :
       LET found == FindQuery(appointments, calls[k].userId, calls[k].date) IN
       /\ SetCall(k, IF ok
                     THEN [calls[k] EXCEPT !.pc = "returned", !.success = TRUE,
                             !.resultIds = IdStrings(SortByDateTime(found))]
                     ELSE [calls[k] EXCEPT !.pc = "threw"])
  /\ UNCHANGED <<appointments, users, savedTokens, credentials, events, nextId, nextEventId,
                 requests, inserted, requestsLeft, callsLeft, kept>>

\* ------------------------------------------------------ deleteAppointment
\* with an appointment in hand: its calendar event first, if it has one
AfterFound(c, doc) ==
  [c EXCEPT !.found = doc,
            !.pc = IF doc.googleEventId # 0 THEN "delTokens" ELSE "deleteOne"]

\* findOne({ userId, _id }) settles; a rejection is swallowed by the catch
\* meant for an invalid ObjectId and the title lookup is issued
FindById(k, outs) ==
  /\ calls[k].pc = "findById"
  /\ \E ok \in outs :
       LET doc == FindOne(ByIdQuery(appointments, calls[k].userId,
                                    calls[k].identifier)) IN
       /\ SetCall(k, IF ok /\ doc # NoDoc THEN AfterFound(calls[k], doc)
                     ELSE [calls[k] EXCEPT !.pc = "findByTitle"])
  /\ UNCHANGED <<appointments, users, savedTokens, credentials, events, nextId, nextEventId,
                 requests, inserted, requestsLeft, callsLeft, kept>>

\* findOne({ userId, title: { $regex, $options: 'i' } }) settles; with no
\* match the call returns success=false; a rejection propagates
FindByTitle(k, outs) ==
  /\ calls[k].pc = "findByTitle"
  /\ \E ok \in outs :
       LET doc == FindOne(ByTitleQuery(appointments, calls[k].userId,
                                       calls[k].identifier)) IN
       /\ SetCall(k, IF ~ok THEN [calls[k] EXCEPT !.pc = "threw"]
                     ELSE IF doc # NoDoc THEN AfterFound(calls[k], doc)
                     ELSE [calls[k] EXCEPT !.pc = "returned"])
  /\ UNCHANGED <<appointments, users, savedTokens, credentials, events, nextId, nextEventId,
                 requests, inserted, requestsLeft, callsLeft, kept>>

\* getUserTokens settles; with tokens they are set on the shared client and
\* events.delete is issued; without, or on a rejection (caught), deleteOne is
DeleteGetTokens(k, outs) ==
  /\ calls[k].pc = "delTokens"
  /\ \E ok \in outs :
       LET tokens == users[calls[k].userId] IN
       /\ IF ok /\ tokens # NoTokens
          THEN /\ credentials' = tokens
               /\ SetCall(k, [calls[k] EXCEPT !.pc = "calendarDelete",
                                              !.tokens = tokens])
          ELSE /\ credentials' = credentials
               /\ SetCall(k, [calls[k] EXCEPT !.pc = "deleteOne"])
  /\ UNCHANGED <<appointments, users, savedTokens, events, nextId, nextEventId, requests,
                 inserted, requestsLeft, callsLeft, kept>>

\* calendar.events.delete settles: it removes the event if the account of
\* the request's credentials has it; an error is logged
CalendarDelete(k, outs) ==
  /\ calls[k].pc = "calendarDelete"
  /\ \E ok \in outs, used \in RequestCredentials(k) :
       /\ events' = IF ok
                    THEN {e \in events : ~(e.id = calls[k].found.googleEventId
                                           /\ e.account = used)}
                    ELSE events
       /\ SetCall(k, [calls[k] EXCEPT !.pc = "deleteOne",
                                      !.usedCreds = used])
  /\ UNCHANGED <<appointments, users, savedTokens, credentials, nextId, nextEventId, requests,
                 inserted, requestsLeft, callsLeft, kept>>

\* deleteOne({ _id }) settles and the call returns success=true; a rejection
\* propagates
DeleteOneSettles(k, outs) ==
  /\ calls[k].pc = "deleteOne"
  /\ \E ok \in outs :
       /\ appointments' = IF ok THEN DeleteOne(appointments, calls[k].found._id)
                          ELSE appointments
       /\ SetCall(k, IF ok
                     THEN [calls[k] EXCEPT !.pc = "returned", !.success = TRUE,
                             !.resultId = ObjectIdString(calls[k].found._id)]
                     ELSE [calls[k] EXCEPT !.pc = "threw"])
  /\ UNCHANGED <<users, savedTokens, credentials, events, nextId, nextEventId, requests,
                 inserted, requestsLeft, callsLeft, kept>>

\* ------------------------------------------------------- reminder scan
RECURSIVE NaturalOrder(_)
\* toArray() of an unsorted find: the documents in insertion order
NaturalOrder(S) ==
  IF S = {} THEN <<>>
  ELSE LET first == CHOOSE a \in S : \A b \in S : a._id <= b._id
       IN  <<first>> \o NaturalOrder(S \ {first})

RECURSIVE SkipToDue(_, _)
\* the for loop up to the next appointment inside the window
SkipToDue(todo, at) ==
  IF todo = <<>> THEN <<>>
  ELSE IF InWindow(DateTimeMs(Head(todo).date, Head(todo).time, tz), at)
       THEN todo
       ELSE SkipToDue(Tail(todo), at)

\* the loop reaches an appointment inside the window: the reminder is logged
\* and updateOne awaited; or it runs out and the scan is over
ScanLoop(todo, at) ==
  LET due == SkipToDue(todo, at) IN
  /\ scan' = IF due = <<>> THEN IdleScan
             ELSE [pc |-> "update", at |-> at, todo |-> due]
  /\ reminders' =
       IF due = <<>> THEN reminders
       ELSE reminders \cup {[id |-> Head(due)._id, title |-> Head(due).title,
                             date |-> Head(due).date, time |-> Head(due).time,
                             at |-> at]}

\* the cron timer fires on the minute: the callback reads the clock, its find
\* settles and the loop starts; the callback has no catch, so a rejection
\* escapes it and ends the scan
CronFires(outs) ==
  /\ scan.pc = "idle"
  /\ scansLeft > 0
  /\ scansLeft' = scansLeft - 1
  /\ now' = ((now \div (60 * 1000)) + 1) * 60 * 1000 + phase
  /\ \E ok \in outs :
       IF ok
       THEN ScanLoop(NaturalOrder(NeedingReminder(appointments, now')), now')
       ELSE /\ scan' = [IdleScan EXCEPT !.pc = "unhandled"]
            /\ reminders' = reminders
  /\ UNCHANGED <<appointments, users, savedTokens, credentials, events, nextId, nextEventId,
                 requests, calls, inserted, requestsLeft, callsLeft, tz, phase>>

\* updateOne({ _id }, { $set: { reminded: true } }) settles and the loop goes on
ScanUpdates(outs) ==
  /\ scan.pc = "update"
  /\ \E ok \in outs :
       IF ok
       THEN /\ appointments' = SetReminded(appointments, Head(scan.todo)._id)
            /\ ScanLoop(Tail(scan.todo), scan.at)
       ELSE /\ appointments' = appointments
            /\ scan' = [IdleScan EXCEPT !.pc = "unhandled"]
            /\ reminders' = reminders
  /\ UNCHANGED <<users, savedTokens, credentials, events, nextId, nextEventId, requests,
                 calls, inserted, requestsLeft, callsLeft, now, tz, phase,
                 scansLeft>>

Step(k, outs) ==
  \/ ScheduleGetTokens(k, outs)
  \/ CalendarInsert(k, outs)
  \/ InsertOne(k, outs)
  \/ GetAppointments(k, outs)
  \/ FindById(k, outs)
  \/ FindByTitle(k, outs)
  \/ DeleteGetTokens(k, outs)
  \/ CalendarDelete(k, outs)
  \/ DeleteOneSettles(k, outs)

Handle(r, turns, outs) ==
  \/ SendMessageSettles(r, turns, outs)
  \/ PromiseAllFulfils(r)
  \/ PromiseAllRejects(r)
  \/ ChatReplies(r, outs)
  \/ ListReplies(r, outs)

Next ==
  \/ \E u \in UserIds : PostChat(u) \/ GetAppointmentsRoute(u)
  \/ \E r \in DOMAIN requests : Handle(r, ModelTurns, Outcomes)
  \/ \E k \in DOMAIN calls : Step(k, Outcomes)
  \/ OAuth2Callback("acctA", Outcomes)

Spec == Init /\ [][Next]_vars

\* ----------------------------- the routes and the reminder scan, all failing
InitServer ==
  /\ \E store \in StoresAtStart : InitOn(store)
  /\ tz = 0
  /\ phase = 0
  /\ requestsLeft = MaxRequests
  /\ callsLeft = MaxCalls
  /\ scansLeft = MaxScans

NextServer ==
  \/ Next
  \/ CronFires(Outcomes)
  \/ ScanUpdates(Outcomes)

SpecServer == InitServer /\ [][NextServer]_vars

\* ------------------------------------------- two chats of one user, re-authorised
ChatCalls ==
  {f \in FunctionCalls :
     \/ f.name = "scheduleAppointment" /\ f.date = 1
     \/ f.name = "getAppointments" /\ f.date = 0
     \/ f.name = "deleteAppointment"}

ChatTurns ==
  {<<>>} \cup {<<f>> : f \in ChatCalls}
         \cup {<<f, g>> : f \in ChatCalls, g \in ChatCalls}

InitChat ==
  /\ InitOn({})
  /\ tz = 0
  /\ phase = 0
  /\ requestsLeft = MaxRequests + 1
  /\ callsLeft = MaxCalls + 1
  /\ scansLeft = 0

NextChat ==
  \/ PostChat("default_user")
  \/ \E r \in DOMAIN requests :
       \/ SendMessageSettles(r, ChatTurns, Outcomes)
       \/ PromiseAllFulfils(r)
       \/ PromiseAllRejects(r)
       \/ ChatReplies(r, Outcomes)
  \/ \E k \in DOMAIN calls : Step(k, Outcomes)
  \/ \E g \in Accounts : OAuth2Callback(g, Outcomes)

SpecChat == InitChat /\ [][NextChat]_vars

\* ------------------ calendar operations of both users on the shared client
OAuthTurns ==
  {<<f>> : f \in {g \in FunctionCalls :
                    \/ g.name = "scheduleAppointment" /\ g.date = 1
                    \/ g.name = "deleteAppointment" /\ g.identifier \in TextIdentifiers}}

InitOAuth ==
  /\ InitOn({})
  /\ tz = 0
  /\ phase = 0
  /\ requestsLeft = MaxRequests + 1
  /\ callsLeft = MaxCalls + 1
  /\ scansLeft = 0

NextOAuth ==
  \/ \E u \in UserIds : PostChat(u)
  \/ \E r \in DOMAIN requests :
       \/ SendMessageSettles(r, OAuthTurns, {TRUE})
       \/ PromiseAllFulfils(r)
  \/ \E k \in DOMAIN calls :
       \/ ScheduleGetTokens(k, {TRUE})
       \/ CalendarInsert(k, {TRUE})
       \/ InsertOne(k, {TRUE})
       \/ FindByTitle(k, {TRUE})
       \/ DeleteGetTokens(k, {TRUE})
       \/ CalendarDelete(k, {TRUE})
       \/ DeleteOneSettles(k, {TRUE})
  \/ \E g \in Accounts : OAuth2Callback(g, {TRUE})

SpecOAuth == InitOAuth /\ [][NextOAuth]_vars

\* ----------------------------------------- the reminder scan, nothing failing
ReminderTurns ==
  {<<>>} \cup {<<f>> : f \in {g \in FunctionCalls :
                                \/ g.name = "scheduleAppointment"
                                \/ g.identifier \in TextIdentifiers}}

InitReminder ==
  /\ \E store \in StoresAtStart : InitOn(store)
  /\ tz \in TzOffsets
  /\ phase \in Phases
  /\ requestsLeft = MaxRequests
  /\ callsLeft = MaxCalls
  /\ scansLeft = MaxScans

NextReminder ==
  \/ PostChat("default_user")
  \/ \E r \in DOMAIN requests :
       \/ SendMessageSettles(r, ReminderTurns, {TRUE})
       \/ PromiseAllFulfils(r)
  \/ \E k \in DOMAIN calls :
       \/ ScheduleGetTokens(k, {TRUE})
       \/ InsertOne(k, {TRUE})
       \/ FindByTitle(k, {TRUE})
       \/ DeleteOneSettles(k, {TRUE})
  \/ CronFires({TRUE})
  \/ ScanUpdates({TRUE})

SpecReminder == InitReminder /\ [][NextReminder]_vars

\* ================================================================ claims
Minute == 60 * 1000

StartOf(a) == DateTimeMs(a.date, a.time, tz)

History(id) == CHOOSE h \in inserted : h.id = id

\* C1: an appointment stored, with reminded=false, more than 16 minutes before
\* its start and not deleted has had its reminder logged and its reminded flag
\* set once the scan of the minute in which the start is at least 15 and less
\* than 16 minutes away has run, whatever the server's time zone.  (A document
\* is stored less than a minute after the clock value the history keeps, so 17
\* minutes by the history are more than 16; the scan of that minute is one
\* the server ran if the minute begins at Clock0 or later.)
C1_ReminderEmitted ==
  \A a \in appointments :
    ( /\ StartOf(a) - History(a._id).at >= 17 * Minute
      /\ StartOf(a) - 16 * Minute >= Clock0
      /\ now > StartOf(a) - 15 * Minute
      /\ scan.pc = "idle" )
    => /\ a.reminded
       /\ \E m \in reminders : m.id = a._id

\* C2: a reminder is logged, and a reminded flag set, only for an appointment
\* whose start is at least 15 and less than 16 minutes after the clock value
\* of the scan that logs it, and whose flag was false when that scan read it:
\* no appointment is reminded twice, every document the scan holds was read
\* with reminded=false, and a set flag has its reminder.
C2_ReminderOnlyInWindow ==
  /\ \A m \in reminders :
       /\ DateTimeMs(m.date, m.time, tz) - m.at >= 15 * Minute
       /\ DateTimeMs(m.date, m.time, tz) - m.at < 16 * Minute
  /\ \A m1, m2 \in reminders : m1.id = m2.id => m1 = m2
  /\ \A i \in 1..Len(scan.todo) : ~scan.todo[i].reminded
  /\ \A a \in appointments :
       a.reminded => \E m \in reminders :
                       m.id = a._id /\ m.date = a.date /\ m.time = a.time

\* a scan has logged a reminder and set the flag of the appointment
C2_Witness ==
  \E a \in appointments : a.reminded /\ \E m \in reminders : m.id = a._id

IsDelete(c) == c.name = "deleteAppointment"

\* the step call k takes, if it takes one
Steps(k) == k \in DOMAIN calls' /\ calls'[k] # calls[k]

Quiet == \A k \in DOMAIN calls : calls[k].pc \in {"returned", "threw"}

\* C4: with every operation completed, for a user who has stored tokens every
\* stored appointment scheduled with those tokens at hand has a live event of
\* the user's calendar under its googleEventId, and every live event the
\* program created for the user belongs to a stored appointment.
C4_CalendarMirrorsStore ==
  Quiet =>
    \A u \in UserIds :
      users[u] # NoTokens =>
        /\ \A a \in ByUser(appointments, u) :
             History(a._id).tokens # NoTokens =>
               \E e \in events : e.id = a.googleEventId /\ e.account = users[u]
        /\ \A e \in events :
             e.owner = u => \E a \in ByUser(appointments, u) :
                              a.googleEventId = e.id

C6_FailuresAnswered ==
  /\ scan.pc # "unhandled"
  /\ \A r \in DOMAIN requests :
       /\ requests[r].pc # "unhandled"
       /\ requests[r].pc = "done" => Len(requests[r].responses) = 1

IsSchedule(c) == c.name = "scheduleAppointment"

\* C7: the step by which scheduleAppointment returns stores exactly one new
\* document, with the call's userId, title, date and time and reminded=false,
\* and returns success=true with its id; the document has a googleEventId
\* exactly when events.insert succeeded, and then the event's.  No other step
\* of the call touches the store, and neither missing tokens nor a failed
\* calendar call makes it throw: only a rejected insertOne does.
C7_ScheduleAlwaysPersists ==
  [][ \A k \in DOMAIN calls :
        (IsSchedule(calls[k]) /\ Steps(k)) =>
          /\ calls'[k].pc = "returned" =>
               /\ calls[k].pc = "insertOne"
               /\ calls'[k].success
               /\ \E d \in appointments' \ appointments :
                    /\ appointments' = appointments \cup {d}
                    /\ \A a \in appointments : a._id # d._id
                    /\ d.userId = calls[k].userId
                    /\ d.title = calls[k].title
                    /\ d.date = calls[k].date
                    /\ d.time = calls[k].time
                    /\ ~d.reminded
                    /\ calls'[k].resultId = ObjectIdString(d._id)
                    /\ HexValue(calls'[k].resultId) = d._id
                    /\ (d.googleEventId # 0) <=> (calls[k].gcal = "ok")
                    /\ d.googleEventId # 0 =>
                         \E e \in events : e.id = d.googleEventId
          /\ calls'[k].pc # "returned" => appointments' = appointments
          /\ calls'[k].pc = "threw" => calls[k].pc = "insertOne"
          /\ calls[k].pc = "getTokens" =>
               calls'[k].pc \in {"calendarInsert", "insertOne"}
          /\ calls[k].pc = "calendarInsert" => calls'[k].pc = "insertOne"
    ]_vars

\* scheduleAppointment has returned success=true although the user has tokens
\* and events.insert failed, and the stored document has no googleEventId
C7_Witness ==
  \E k \in DOMAIN calls :
    /\ IsSchedule(calls[k]) /\ calls[k].pc = "returned" /\ calls[k].success
    /\ calls[k].tokens # NoTokens /\ calls[k].gcal = "failed"
    /\ \E a \in appointments :
         a._id = HexValue(calls[k].resultId) /\ a.googleEventId = 0

\* the frame of deleteAppointment: the lookup by _id comes first and the one
\* by title only after it; what is found is an appointment of the user, by
\* _id the one the identifier names, by title one that Match lets through;
\* the step that returns success=true removes the found appointment and no
\* other, no other step touches the store; success=false is returned only
\* when the title lookup has no match, and with store and calendar untouched
DeleteFrame(Match(_, _)) ==
  /\ \A k \in DOMAIN calls' \ DOMAIN calls :
       (IsDelete(calls'[k]) /\ IsObjectIdString(calls'[k].identifier)) =>
          calls'[k].pc = "findById"
  /\ \A k \in DOMAIN calls :
       (IsDelete(calls[k]) /\ Steps(k)) =>
         /\ calls'[k].pc = "findByTitle" => calls[k].pc = "findById"
         /\ (calls[k].found = NoDoc /\ calls'[k].found # NoDoc) =>
              /\ calls'[k].found \in ByUser(appointments, calls[k].userId)
              /\ calls[k].pc = "findById" =>
                   ObjectIdString(calls'[k].found._id) = calls[k].identifier
              /\ calls[k].pc = "findByTitle" =>
                   Match(calls[k].identifier, calls'[k].found.title)
         /\ (calls'[k].pc = "returned" /\ calls'[k].success) =>
              /\ calls[k].pc = "deleteOne"
              /\ appointments' = appointments \ {calls[k].found}
         /\ (calls'[k].pc = "returned" /\ ~calls'[k].success) =>
              /\ calls[k].pc = "findByTitle"
              /\ \A a \in ByUser(appointments, calls[k].userId) :
                   ~Match(calls[k].identifier, a.title)
              /\ events' = events
         /\ ~(calls'[k].pc = "returned" /\ calls'[k].success) =>
              appointments' = appointments
         /\ calls[k].pc \notin {"calendarDelete"} => events' = events

TitleEquals(identifier, title) == ToLower(identifier) = ToLower(title)

TitleContains(identifier, title) ==
  \E i \in 0..Len(title) :
    /\ i + Len(identifier) <= Len(title)
    /\ \A n \in 1..Len(identifier) : Lower(title[i + n]) = Lower(identifier[n])

C9_EveryResponseSentBack ==
  \A r \in DOMAIN requests :
    /\ requests[r].pc = "calls" =>
         CallsOf(r) \subseteq {<<r, i>> : i \in 1..requests[r].asked}
    /\ (requests[r].pc = "sendMessage" /\ requests[r].asked > 0) =>
         requests[r].sentBack = 1..requests[r].asked
    /\ requests[r].pc = "done" => Len(requests[r].responses) = 1
=============================================================================
